---- MODULE Spec2Model ----
(***************************************************************************)
(* EagleVision "Pizza Monitor": the violation rule engine                  *)
(* (services/detection/app.py), its overlap predicate and the frame and    *)
(* result channels it sits between.                                        *)
(*                                                                         *)
(* Three specifications share the module:                                  *)
(*   Spec         the rule engine consuming detection_queue, one step of   *)
(*                process_frame per action;                                *)
(*   SpecRule     rule evaluation (lines 204-224) applied to every         *)
(*                detection list of a bounded set;                         *)
(*   SpecOverlap  boxes_overlap applied to every pair of boxes of a        *)
(*                bounded integer grid.                                    *)
(***************************************************************************)
EXTENDS Integers, Sequences, FiniteSets, TLC

VARIABLES
    queue,              \* detection_queue: frame messages not yet delivered
    sent,               \* every frame message routed to detection_queue, by delivery tag
    pc,                 \* per engine instance: position inside process_frame
    msg,                \* per engine instance: the unacknowledged message it holds
    detections,         \* per engine instance: local  detections
    violation_count,    \* per engine instance: local  violation_count
    violation_bboxes,   \* per engine instance: local  violation_bboxes
    store,              \* the violations table (append-only rows)
    results,            \* messages published on detection_results / 'detections'
    acked,              \* delivery tags that received basic_ack
    nacked,             \* delivery tags that received basic_nack(requeue=False)
    raised,             \* delivery tag -> the stage whose exception reached line 264
    deliveries,         \* delivery tag -> how often the broker delivered it
    boxA, boxB,         \* SpecOverlap: the two arguments of boxes_overlap
    iou,                \* SpecOverlap: the iou_threshold argument used by the call
    overlap,            \* SpecOverlap: <<the value the call returned>>, <<>> before it
    rdelivered,         \* messages of  results  delivered to the aggregator so far
    aggPc,              \* the aggregator's position inside process_detection
    aggCur,             \* index in  results  of the message it holds, 0 for none
    latest_detections,  \* StreamingManager.latest_detections
    video_violations,   \* StreamingManager.video_violations
    aggAcked,           \* result messages that received basic_ack
    aggNacked,          \* result messages that received basic_nack(requeue=False)
    observed,           \* what the last get_latest_detection request read
    startup,            \* per service: where its start-up stands and what it holds
    readerPc,           \* the frame reader's position in process_all_videos
    dirVideos,          \* the video files now present in the video directory
    video_files,        \* process_all_videos: the files the glob found, sorted
    vidx,               \* index in video_files of the file being processed
    cap,                \* read_video: the opened capture, its frames and rate
    frame_skip,         \* read_video: the decimation stride
    frame_id,           \* read_video: the index of the last frame read
    published,          \* frames basic_publish accepted, in order
    failed,             \* frame_ids of the open video whose publish_frame raised
    polls,              \* sleep(10) intervals the waiting reader completed
    aggBefore,          \* both maps as they stood when the held message was delivered
    restarts,           \* how often the streaming process was started again
    skipped,            \* the videos read_video logged as "Cannot open video"
    completed,          \* the videos read_video logged as "Video processing complete"
    model_loaded,       \* ViolationDetector.model_loaded
    broker,             \* detection_exchange, detection_queue and its binding
    topoPc              \* where the frame reader and the engine stand on the broker

engineVars == <<queue, sent, pc, msg, detections, violation_count,
                violation_bboxes, store, results, acked, nacked, raised,
                deliveries>>
overlapVars == <<boxA, boxB, iou, overlap>>
aggGhost == <<aggBefore, restarts>>
aggVars == <<rdelivered, aggPc, aggCur, latest_detections, video_violations,
             aggAcked, aggNacked, observed, aggGhost>>
startVars == <<startup, model_loaded>>
readerLog == <<skipped, completed>>
readerVars == <<readerPc, dirVideos, video_files, vidx, cap, frame_skip,
                frame_id, published, failed, polls, readerLog>>
topoVars == <<broker, topoPc>>
vars == <<engineVars, overlapVars, aggVars, startVars, readerVars, topoVars>>

(***************************************************************************)
(* Bounds of the model.                                                    *)
(***************************************************************************)
\* frame messages routed to detection_queue in one behaviour of Spec
MaxFrames == 2
\* longest detection list SpecRule draws
MaxDet == 4
\* SpecOverlap draws box coordinates from 0..GridMax
GridMax == 3

Max(a, b) == IF a >= b THEN a ELSE b
Min(a, b) == IF a <= b THEN a ELSE b

(***************************************************************************)
(* The overlap predicate, app.py lines 53-73.  A box is <<x1, y1, x2, y2>>.*)
(* iou_threshold is a fraction in the source (default 0.1); the model      *)
(* carries it in percent.  The body never reads it.                        *)
(***************************************************************************)
DefaultIouThreshold == 10

\* area of the intersection rectangle as the source computes it (line 68)
inter_area(boxA_, boxB_) ==
    LET x_left   == Max(boxA_[1], boxB_[1])
        y_top    == Max(boxA_[2], boxB_[2])
        x_right  == Min(boxA_[3], boxB_[3])
        y_bottom == Min(boxA_[4], boxB_[4])
    IN  (x_right - x_left) * (y_bottom - y_top)

\* a plausible bug: the threshold gates the result as an IoU ratio would
\* (intersection / area of boxA_ >= iou_threshold)
boxes_overlap_IouGate(boxA_, boxB_, iou_threshold) ==
    LET x_left   == Max(boxA_[1], boxB_[1])
        y_top    == Max(boxA_[2], boxB_[2])
        x_right  == Min(boxA_[3], boxB_[3])
        y_bottom == Min(boxA_[4], boxB_[4])
        areaA    == (boxA_[3] - boxA_[1]) * (boxA_[4] - boxA_[2])
    IN  IF x_right < x_left \/ y_bottom < y_top THEN FALSE
        ELSE IF inter_area(boxA_, boxB_) <= 0 THEN FALSE
        ELSE inter_area(boxA_, boxB_) * 100 >= iou_threshold * areaA

\* a plausible bug: the area test of line 69 written  < 0, so that boxes
\* sharing only an edge or a corner count as overlapping
boxes_overlap_Touching(boxA_, boxB_, iou_threshold) ==
    LET x_left   == Max(boxA_[1], boxB_[1])
        y_top    == Max(boxA_[2], boxB_[2])
        x_right  == Min(boxA_[3], boxB_[3])
        y_bottom == Min(boxA_[4], boxB_[4])
    IN  IF x_right < x_left \/ y_bottom < y_top THEN FALSE
        ELSE IF inter_area(boxA_, boxB_) < 0 THEN FALSE
        ELSE TRUE

boxes_overlap(boxA_, boxB_, iou_threshold) ==
    LET x_left   == Max(boxA_[1], boxB_[1])
        y_top    == Max(boxA_[2], boxB_[2])
        x_right  == Min(boxA_[3], boxB_[3])
        y_bottom == Min(boxA_[4], boxB_[4])
    IN  IF x_right < x_left \/ y_bottom < y_top THEN FALSE
        ELSE IF inter_area(boxA_, boxB_) <= 0 THEN FALSE
        ELSE TRUE

(***************************************************************************)
(* ROIS (lines 48-51) and is_in_roi (lines 76-78).                         *)
(***************************************************************************)
ROIS == << <<48, 34, 55, 36>> >>

\* a plausible bug: the ROI gate left out
is_in_roi_Always(bbox, rois) == TRUE

is_in_roi(bbox, rois) ==
    \E r \in 1..Len(rois) : boxes_overlap(bbox, rois[r], DefaultIouThreshold)

(***************************************************************************)
(* Rule evaluation, process_frame lines 204-224.  A detection is           *)
(* [class, bbox]; its confidence is carried by the source only into the    *)
(* stored row and the result message and takes no part in any decision.    *)
(***************************************************************************)
ByClass(dets, c) == SelectSeq(dets, LAMBDA d : d.class = c)

\* a plausible bug: the scooper test left out
holding_scooper_Never(hb, scoops) == FALSE

\* line 215
holding_scooper(hb, scoops) ==
    \E s \in 1..Len(scoops) : boxes_overlap(hb, scoops[s].bbox, DefaultIouThreshold)

\* a plausible bug: the  break  of line 224 left out (all matches recorded)
RECURSIVE ScanPizzas_NoBreak(_, _, _)
ScanPizzas_NoBreak(hb, pizzas, j) ==
    IF j > Len(pizzas) THEN <<>>
    ELSE IF boxes_overlap(hb, pizzas[j].bbox, DefaultIouThreshold)
         THEN << [hand |-> hb, pizza |-> pizzas[j].bbox] >>
              \o ScanPizzas_NoBreak(hb, pizzas, j + 1)
         ELSE ScanPizzas_NoBreak(hb, pizzas, j + 1)

\* lines 217-224: the pairings one hand appends, scanning from pizza j
RECURSIVE ScanPizzas(_, _, _)
ScanPizzas(hb, pizzas, j) ==
    IF j > Len(pizzas) THEN <<>>
    ELSE IF boxes_overlap(hb, pizzas[j].bbox, DefaultIouThreshold)
         THEN << [hand |-> hb, pizza |-> pizzas[j].bbox] >>
         ELSE ScanPizzas(hb, pizzas, j + 1)

\* lines 211-224: the loop over hands from hand i, acc holding the two locals
RECURSIVE EvalHands(_, _, _, _, _)
EvalHands(hands, scoops, pizzas, i, acc) ==
    IF i > Len(hands) THEN acc
    ELSE LET hb    == hands[i].bbox
             found == IF is_in_roi(hb, ROIS) /\ ~holding_scooper(hb, scoops)
                      THEN ScanPizzas(hb, pizzas, 1)
                      ELSE <<>>
         IN  EvalHands(hands, scoops, pizzas, i + 1,
                 [violation_count  |-> acc.violation_count + Len(found),
                  violation_bboxes |-> acc.violation_bboxes \o found])

\* lines 204-224
evaluate_rule(dets) ==
    EvalHands(ByClass(dets, "hand"), ByClass(dets, "scooper"),
              ByClass(dets, "pizza"), 1,
              [violation_count |-> 0, violation_bboxes |-> <<>>])

(***************************************************************************)
(* Inputs.                                                                 *)
(***************************************************************************)
Engines == {"e1", "e2"}
Videos  == {"v1", "v2"}

\* What a message body can be, by the first line of lines 173-189 it fails:
\*   not_json    json.loads raises                       (line 173)
\*   no_frame    a JSON object without 'frame'           (line 179)
\*   bad_base64  'frame' with incorrect padding: raises  (line 183)
\*   not_image   bytes cv2.imdecode returns None for     (line 187)
\*   jpeg        a frame as publish_frame encodes it
Bodies == {"jpeg", "not_json", "no_frame", "bad_base64", "not_image"}

Det(c, b) == [class |-> c, bbox |-> b]

HandBox    == <<50, 34, 56, 37>>
PizzaBox   == <<49, 33, 57, 38>>
ScooperBox == <<50, 34, 54, 36>>
OutsideBox == <<0, 0, 5, 5>>
\* touches the ROI along its right edge only, and overlaps PizzaBox
EdgeBox    == <<55, 34, 58, 37>>

\* the detection lists the detector returns in Spec
SceneViolation == << Det("hand", HandBox), Det("pizza", PizzaBox) >>
SceneScooper   == << Det("hand", HandBox), Det("pizza", PizzaBox),
                     Det("scooper", ScooperBox) >>
SceneTwoHands  == << Det("hand", HandBox), Det("person", OutsideBox),
                     Det("hand", ScooperBox), Det("pizza", PizzaBox) >>
Scenes == {SceneViolation, SceneScooper, SceneTwoHands}

\* the detection lists SpecRule draws
\* hands: inside the ROI (two of them), outside it, touching its edge;
\* pizzas: under both ROI hands, under one of them, under the outside hand;
\* scoopers: over both ROI hands, over one of them, over neither
RuleHandBoxes    == {HandBox, ScooperBox, OutsideBox, EdgeBox}
RulePizzaBoxes   == {PizzaBox, ScooperBox, OutsideBox}
RuleScooperBoxes == {ScooperBox, EdgeBox, OutsideBox}
DetPool ==
    {Det("hand", b) : b \in RuleHandBoxes}
    \cup {Det("pizza", b) : b \in RulePizzaBoxes}
    \cup {Det("scooper", b) : b \in RuleScooperBoxes}
DetLists    == UNION {[1..n -> DetPool] : n \in 0..MaxDet}

NoMsg == [tag |-> 0, video_name |-> "", frame_id |-> 0, body |-> ""]

(***************************************************************************)
(* The frame channel.  publish_frame (frame_reader/app.py lines 35-62)     *)
(* publishes to detection_exchange with routing key 'frame', which         *)
(* connect_rabbitmq (detection/app.py lines 156-161) binds to the durable  *)
(* detection_queue.  The queue takes whatever is routed to it, so the body *)
(* ranges over Bodies.  frame_id counts the frames of the video.           *)
(***************************************************************************)
FramesOf(v) == Cardinality({t \in 1..Len(sent) : sent[t].video_name = v})

PublishFrame ==
    /\ Len(sent) < MaxFrames
    /\ \E v \in Videos, b \in Bodies :
          LET m == [tag |-> Len(sent) + 1, video_name |-> v,
                    frame_id |-> FramesOf(v) + 1, body |-> b]
          IN  /\ queue' = Append(queue, m)
              /\ sent'  = Append(sent, m)
    /\ raised' = Append(raised, "none")
    /\ deliveries' = Append(deliveries, 0)
    /\ UNCHANGED <<pc, msg, detections, violation_count, violation_bboxes,
                   store, results, acked, nacked, overlapVars, aggVars,
                   startVars, readerVars, topoVars>>

(***************************************************************************)
(* start_consuming, lines 268-276: prefetch_count=1 and auto_ack=False, so *)
(* the broker hands an instance the next message only when it holds none.  *)
(***************************************************************************)
\* a plausible bug: a fanout instead of competing consumers, the message
\* stays in the queue for the other instance
Deliver_Fanout(e) ==
    /\ pc[e] = "idle"
    /\ queue # <<>>
    /\ msg' = [msg EXCEPT ![e] = Head(queue)]
    /\ queue' = IF deliveries[Head(queue).tag] = 0 THEN queue ELSE Tail(queue)
    /\ deliveries' = [deliveries EXCEPT ![Head(queue).tag] = @ + 1]
    /\ pc' = [pc EXCEPT ![e] = "received"]
    /\ UNCHANGED <<sent, detections, violation_count, violation_bboxes, store,
                   results, acked, nacked, raised, overlapVars, aggVars,
                   startVars, readerVars, topoVars>>

Deliver_Lifo(e) ==
    /\ pc[e] = "idle"
    /\ queue # <<>>
    /\ msg' = [msg EXCEPT ![e] = queue[Len(queue)]]
    /\ queue' = SubSeq(queue, 1, Len(queue) - 1)
    /\ deliveries' = [deliveries EXCEPT ![queue[Len(queue)].tag] = @ + 1]
    /\ pc' = [pc EXCEPT ![e] = "received"]
    /\ UNCHANGED <<sent, detections, violation_count, violation_bboxes, store,
                   results, acked, nacked, raised, overlapVars, aggVars,
                   startVars, readerVars, topoVars>>

Deliver(e) ==
    /\ pc[e] = "idle"
    /\ queue # <<>>
    /\ msg' = [msg EXCEPT ![e] = Head(queue)]
    /\ queue' = Tail(queue)
    /\ deliveries' = [deliveries EXCEPT ![Head(queue).tag] = @ + 1]
    /\ pc' = [pc EXCEPT ![e] = "received"]
    /\ UNCHANGED <<sent, detections, violation_count, violation_bboxes, store,
                   results, acked, nacked, raised, overlapVars, aggVars,
                   startVars, readerVars, topoVars>>

\* process_frame returns: the callback's locals are gone
Return(e) ==
    /\ pc' = [pc EXCEPT ![e] = "idle"]
    /\ msg' = [msg EXCEPT ![e] = NoMsg]
    /\ detections' = [detections EXCEPT ![e] = <<>>]
    /\ violation_count' = [violation_count EXCEPT ![e] = 0]
    /\ violation_bboxes' = [violation_bboxes EXCEPT ![e] = <<>>]

\* a plausible bug: the callback returns without settling the message
basic_ack_Forgotten(e) ==
    UNCHANGED <<acked, queue, nacked, raised>>

\* ch.basic_ack(delivery_tag=...), lines 180, 188, 262
basic_ack(e) ==
    /\ acked' = acked \cup {msg[e].tag}
    /\ UNCHANGED <<queue, nacked, raised>>

\* a plausible bug: requeue=True, the message goes back to the queue
ExceptHandler_Requeue(e, stage) ==
    /\ nacked' = nacked \cup {msg[e].tag}
    /\ raised' = [raised EXCEPT ![msg[e].tag] = stage]
    /\ queue' = Append(queue, msg[e])
    /\ UNCHANGED acked
    /\ Return(e)

\* a plausible bug: the exception is swallowed and the message acked
ExceptHandler_Ack(e, stage) ==
    /\ acked' = acked \cup {msg[e].tag}
    /\ raised' = [raised EXCEPT ![msg[e].tag] = stage]
    /\ UNCHANGED <<queue, nacked>>
    /\ Return(e)

\* lines 264-266: an exception raised at  stage  is logged and the message
\* nacked with requeue=False (the broker discards it: detection_queue is
\* declared with no dead-letter exchange, line 156)
ExceptHandler(e, stage) ==
    /\ nacked' = nacked \cup {msg[e].tag}
    /\ raised' = [raised EXCEPT ![msg[e].tag] = stage]
    /\ UNCHANGED <<queue, acked>>
    /\ Return(e)

\* lines 173-189 on a body: "raise", "ack_drop" or "frame"
DecodeOutcome(body) ==
    IF body = "not_json" THEN "raise"
    ELSE IF body = "no_frame" THEN "ack_drop"
    ELSE IF body = "bad_base64" THEN "raise"
    ELSE IF body = "not_image" THEN "ack_drop"
    ELSE "frame"

\* lines 172-189
Decode(e) ==
    /\ pc[e] = "received"
    /\ \/ /\ DecodeOutcome(msg[e].body) = "raise"
          /\ ExceptHandler(e, "decode")
       \/ /\ DecodeOutcome(msg[e].body) = "ack_drop"
          /\ basic_ack(e)
          /\ Return(e)
       \/ /\ DecodeOutcome(msg[e].body) = "frame"
          /\ pc' = [pc EXCEPT ![e] = "decoded"]
          /\ UNCHANGED <<queue, msg, detections, violation_count,
                         violation_bboxes, acked, nacked, raised>>
    /\ UNCHANGED <<sent, store, results, deliveries, overlapVars, aggVars,
                   startVars, readerVars, topoVars>>

\* lines 192-201: the detector returns a detection list or raises; calling
\* self.model when it is None raises TypeError
Detect(e) ==
    /\ pc[e] = "decoded"
    /\ \/ /\ model_loaded
          /\ \E scene \in Scenes : detections' = [detections EXCEPT ![e] = scene]
          /\ pc' = [pc EXCEPT ![e] = "detected"]
          /\ UNCHANGED <<queue, msg, violation_count, violation_bboxes, acked,
                         nacked, raised>>
       \/ ExceptHandler(e, "detect")
    /\ UNCHANGED <<sent, store, results, deliveries, overlapVars, aggVars,
                   startVars, readerVars, topoVars>>

\* lines 204-224
Evaluate(e) ==
    /\ pc[e] = "detected"
    /\ LET r == evaluate_rule(detections[e])
       IN  /\ violation_count' = [violation_count EXCEPT ![e] = r.violation_count]
           /\ violation_bboxes' = [violation_bboxes EXCEPT ![e] = r.violation_bboxes]
    /\ pc' = [pc EXCEPT ![e] = "evaluated"]
    /\ UNCHANGED <<queue, sent, msg, detections, store, results, acked, nacked,
                   raised, deliveries, overlapVars, aggVars,
                   startVars, readerVars, topoVars>>

\* the row of lines 229-242 (the connection is autocommit, line 124)
Row(e) ==
    [video_name |-> msg[e].video_name, frame_id |-> msg[e].frame_id,
     violation_type |-> "hand_no_scooper",
     bounding_boxes |-> violation_bboxes[e],
     detected_objects |-> [k \in 1..Len(detections[e]) |-> detections[e][k].class]]

\* a plausible bug: the test of line 227 left out, a row for every frame
Persist_Always(e) ==
    /\ pc[e] = "evaluated"
    /\ store' = Append(store, Row(e))
    /\ pc' = [pc EXCEPT ![e] = "persisted"]
    /\ UNCHANGED <<queue, msg, detections, violation_count, violation_bboxes,
                   acked, nacked, raised>>
    /\ UNCHANGED <<sent, results, deliveries, overlapVars, aggVars,
                   startVars, readerVars, topoVars>>

\* a plausible bug: the insert sits inside the rule loop, one row per pairing
Persist_PerPairing(e) ==
    /\ pc[e] = "evaluated"
    /\ store' = store \o [k \in 1..violation_count[e] |->
                            [Row(e) EXCEPT !.bounding_boxes =
                                              <<violation_bboxes[e][k]>>]]
    /\ pc' = [pc EXCEPT ![e] = "persisted"]
    /\ UNCHANGED <<queue, msg, detections, violation_count, violation_bboxes,
                   acked, nacked, raised>>
    /\ UNCHANGED <<sent, results, deliveries, overlapVars, aggVars,
                   startVars, readerVars, topoVars>>

\* lines 226-244: the insert succeeds or cursor.execute raises
Persist(e) ==
    /\ pc[e] = "evaluated"
    /\ \/ /\ violation_count[e] > 0
          /\ store' = Append(store, Row(e))
          /\ pc' = [pc EXCEPT ![e] = "persisted"]
          /\ UNCHANGED <<queue, msg, detections, violation_count,
                         violation_bboxes, acked, nacked, raised>>
       \/ /\ violation_count[e] > 0
          /\ ExceptHandler(e, "insert")
          /\ UNCHANGED store
       \/ /\ ~(violation_count[e] > 0)
          /\ pc' = [pc EXCEPT ![e] = "persisted"]
          /\ UNCHANGED <<queue, msg, detections, violation_count,
                         violation_bboxes, acked, nacked, raised, store>>
    /\ UNCHANGED <<sent, results, deliveries, overlapVars, aggVars,
                   startVars, readerVars, topoVars>>

\* the message of lines 247-253 (its timestamp is the wall clock)
result_message(e) ==
    [video_name |-> msg[e].video_name, frame_id |-> msg[e].frame_id,
     detections |-> detections[e], violation_count |-> violation_count[e]]

\* a plausible bug: the result is published twice
Publish_Twice(e) ==
    /\ pc[e] = "persisted"
    /\ results' = Append(Append(results, result_message(e)), result_message(e))
    /\ pc' = [pc EXCEPT ![e] = "published"]
    /\ UNCHANGED <<queue, msg, detections, violation_count, violation_bboxes,
                   acked, nacked, raised>>
    /\ UNCHANGED <<sent, store, deliveries, overlapVars, aggVars,
                   startVars, readerVars, topoVars>>

\* a plausible bug: a failed publish is swallowed and the frame still acked
Publish_AckOnFailure(e) ==
    /\ pc[e] = "persisted"
    /\ \/ /\ results' = Append(results, result_message(e))
          /\ pc' = [pc EXCEPT ![e] = "published"]
          /\ UNCHANGED <<queue, msg, detections, violation_count,
                         violation_bboxes, acked, nacked, raised>>
       \/ /\ ExceptHandler_Ack(e, "publish")
          /\ UNCHANGED results
    /\ UNCHANGED <<sent, store, deliveries, overlapVars, aggVars,
                   startVars, readerVars, topoVars>>

\* lines 246-260: basic_publish succeeds or raises
Publish(e) ==
    /\ pc[e] = "persisted"
    /\ \/ /\ results' = Append(results, result_message(e))
          /\ pc' = [pc EXCEPT ![e] = "published"]
          /\ UNCHANGED <<queue, msg, detections, violation_count,
                         violation_bboxes, acked, nacked, raised>>
       \/ /\ ExceptHandler(e, "publish")
          /\ UNCHANGED results
    /\ UNCHANGED <<sent, store, deliveries, overlapVars, aggVars,
                   startVars, readerVars, topoVars>>

\* line 262
Ack(e) ==
    /\ pc[e] = "published"
    /\ basic_ack(e)
    /\ Return(e)
    /\ UNCHANGED <<sent, store, results, deliveries, overlapVars, aggVars,
                   startVars, readerVars, topoVars>>

EngineInit ==
    /\ queue = <<>>
    /\ sent = <<>>
    /\ pc = [e \in Engines |-> "idle"]
    /\ msg = [e \in Engines |-> NoMsg]
    /\ detections = [e \in Engines |-> <<>>]
    /\ violation_count = [e \in Engines |-> 0]
    /\ violation_bboxes = [e \in Engines |-> <<>>]
    /\ store = <<>>
    /\ results = <<>>
    /\ acked = {}
    /\ nacked = {}
    /\ raised = <<>>
    /\ deliveries = <<>>

OverlapIdle ==
    /\ boxA = <<0, 0, 0, 0>>
    /\ boxB = <<0, 0, 0, 0>>
    /\ iou = DefaultIouThreshold
    /\ overlap = <<>>

\* StreamingManager.__init__, streaming/app.py lines 30-32: both maps empty
NoObservation == [video |-> "", upto |-> 0, latest |-> <<>>, counter |-> <<>>]

NoBefore == [latest_detections |-> <<>>, video_violations |-> <<>>]

AggIdle ==
    /\ rdelivered = 0
    /\ aggPc = "idle"
    /\ aggCur = 0
    /\ latest_detections = <<>>
    /\ video_violations = <<>>
    /\ aggAcked = {}
    /\ aggNacked = {}
    /\ observed = NoObservation
    /\ aggBefore = NoBefore
    /\ restarts = 0

\* the services before their __main__ blocks run
Services == {"frame_reader", "detection", "streaming"}

NotStarted ==
    [pc |-> "connect_db", retry_count |-> 0, attempts |-> 0,
     db_conn |-> FALSE, channel |-> FALSE, manager |-> FALSE]

StartupIdle ==
    startup = [s \in Services |->
                 IF s = "frame_reader"
                   THEN [NotStarted EXCEPT !.pc = "connect_rabbitmq"]
                   ELSE NotStarted]

StartIdle ==
    /\ StartupIdle
    /\ model_loaded = TRUE

NoCap == [n |-> 0, fps |-> 0]

ReaderIdle ==
    /\ readerPc = "scan"
    /\ dirVideos = {}
    /\ video_files = <<>>
    /\ vidx = 0
    /\ cap = NoCap
    /\ frame_skip = 1
    /\ frame_id = 0
    /\ published = <<>>
    /\ failed = {}
    /\ polls = 0
    /\ skipped = {}
    /\ completed = {}

\* nothing is declared on the broker; neither service has connected
NoTopology == [exchange |-> FALSE, queue |-> FALSE, bound |-> FALSE,
               routed |-> 0, dropped |-> 0]

TopoIdle ==
    /\ broker = NoTopology
    /\ topoPc = [reader |-> "connect", engine |-> "connect",
                 retry_count |-> 0, published |-> 0]

Init == EngineInit /\ OverlapIdle /\ AggIdle /\ StartIdle /\ ReaderIdle
            /\ TopoIdle

Next ==
    \/ PublishFrame
    \/ \E e \in Engines : Deliver(e)
    \/ \E e \in Engines : Decode(e)
    \/ \E e \in Engines : Detect(e)
    \/ \E e \in Engines : Evaluate(e)
    \/ \E e \in Engines : Persist(e)
    \/ \E e \in Engines : Publish(e)
    \/ \E e \in Engines : Ack(e)

Spec == Init /\ [][Next]_vars

(***************************************************************************)
(* Properties of the rule engine, checked under Spec.                      *)
(***************************************************************************)
Tags == 1..Len(sent)

\* the DetectionResults published for frame message m
NResults(m) ==
    Cardinality({k \in 1..Len(results) :
                    /\ results[k].video_name = m.video_name
                    /\ results[k].frame_id = m.frame_id})

\* the rows stored for frame message m
NRows(m) ==
    Cardinality({k \in 1..Len(store) :
                    /\ store[k].video_name = m.video_name
                    /\ store[k].frame_id = m.frame_id})

\* row r has a published result of the same (video, frame_id) with
\* violation_count >= 1
HasViolationResult(r) ==
    \E k \in 1..Len(results) :
        /\ results[k].video_name = r.video_name
        /\ results[k].frame_id = r.frame_id
        /\ results[k].violation_count >= 1

\* the delivery tags of the frame messages row r can come from
TagsOfRow(r) ==
    {t \in Tags : /\ sent[t].video_name = r.video_name
                  /\ sent[t].frame_id = r.frame_id}

\* C1 as stated: every frame that was acked or nacked has exactly one
\* DetectionResult published for it.
C1_ExactlyOneResultPerSettledFrame ==
    \A t \in acked \cup nacked : NResults(sent[t]) = 1

\* C1 as amended: a frame never has two DetectionResults; a nacked frame has
\* none; an acked frame has exactly one when it was decoded (a jpeg body) and
\* none when it was acknowledged and dropped as undecodable.
C1_AtMostOneResultPerFrame ==
    \A t \in Tags :
        /\ NResults(sent[t]) <= 1
        /\ t \in nacked => NResults(sent[t]) = 0
        /\ t \in acked => (NResults(sent[t]) = 1 <=> sent[t].body = "jpeg")

\* one frame acked with its single result, another nacked with none
C1_Witness ==
    \E t, u \in Tags :
        /\ t \in acked /\ sent[t].body = "jpeg" /\ NResults(sent[t]) = 1
        /\ u \in nacked /\ NResults(sent[u]) = 0

\* C2 as stated: in every reachable state every stored ViolationEvent row has
\* a published DetectionResult of the same (video, frame_id) with
\* violation_count >= 1.
C2_RowAlwaysHasResult ==
    \A k \in 1..Len(store) : HasViolationResult(store[k])

\* C2 as amended: a stored row lacks its result (violation_count >= 1) only
\* while its frame is between the insert and the publish, or after the publish
\* raised and the frame was nacked; every row of an acked frame has it.
C2_RowHasResultUnlessPublishPending ==
    \A k \in 1..Len(store) :
        \/ HasViolationResult(store[k])
        \/ \E e \in Engines : pc[e] = "persisted" /\ msg[e].tag \in TagsOfRow(store[k])
        \/ \E t \in TagsOfRow(store[k]) : t \in nacked /\ raised[t] = "publish"

\* a row of an acked frame, with its result published
C2_Witness ==
    \E k \in 1..Len(store) :
        /\ HasViolationResult(store[k])
        /\ TagsOfRow(store[k]) \subseteq acked

\* C3 as stated: a failed insert is local: the frame is never nacked for it,
\* and once its handling has ended the result is published and the frame acked.
C3_InsertFailureStillPublishesAndAcks ==
    \A t \in Tags :
        raised[t] = "insert" =>
            /\ t \notin nacked
            /\ (pc = [e \in Engines |-> "idle"] /\ queue = <<>>) =>
                   (t \in acked /\ NResults(sent[t]) = 1)

\* C4: a decoded frame is acked only with its DetectionResult already
\* published, and a frame whose publish raised is not acked.
C4_AckOnlyAfterPublish ==
    /\ \A t \in acked : sent[t].body = "jpeg" => NResults(sent[t]) >= 1
    /\ \A t \in Tags : raised[t] = "publish" => t \notin acked
    /\ \A e \in Engines : msg[e].tag \notin acked

\* one frame acked after its publish, another whose publish raised and that
\* was nacked instead
C4_Witness ==
    \E t, u \in Tags :
        /\ t \in acked /\ sent[t].body = "jpeg" /\ NResults(sent[t]) = 1
        /\ raised[u] = "publish" /\ u \in nacked

\* C5: a frame whose handling raised (at decoding, in the detector, at the
\* insert or at the publish) is nacked and not acked, is not put back on the
\* queue, is delivered once and never again, and the instance that handled it
\* is back in its consumer loop, no longer holding it.
C5_ErrorNacksWithoutRequeue ==
    \A t \in Tags :
        raised[t] # "none" =>
            /\ t \in nacked /\ t \notin acked
            /\ \A k \in 1..Len(queue) : queue[k].tag # t
            /\ deliveries[t] = 1
            /\ \A e \in Engines : msg[e].tag # t

\* the detector raised on a frame: it was nacked, and a frame published after
\* it was still handled and acked
C5_Witness ==
    \E t, u \in Tags :
        /\ raised[t] = "detect" /\ t \in nacked
        /\ t < u /\ u \in acked /\ sent[u].body = "jpeg"

\* C6 as stated: a message that cannot be decoded (any of the four malformed
\* bodies) is acked, not nacked, once handled, and nothing is stored or
\* published for it.
C6_UndecodableIsAckedAndDropped ==
    \A t \in acked \cup nacked :
        sent[t].body # "jpeg" =>
            /\ t \in acked /\ t \notin nacked
            /\ NResults(sent[t]) = 0
            /\ NRows(sent[t]) = 0

(***************************************************************************)
(* SpecRule: an instance stands at line 204 holding a frame whose          *)
(* detection list is any list of DetLists, and evaluates the rule.         *)
(***************************************************************************)
RuleFrame == [tag |-> 1, video_name |-> "v1", frame_id |-> 1, body |-> "jpeg"]

InitRule ==
    /\ queue = <<>>
    /\ sent = <<RuleFrame>>
    /\ pc = [e \in Engines |-> IF e = "e1" THEN "detected" ELSE "idle"]
    /\ msg = [e \in Engines |-> IF e = "e1" THEN RuleFrame ELSE NoMsg]
    /\ \E dets \in DetLists :
          detections = [e \in Engines |-> IF e = "e1" THEN dets ELSE <<>>]
    /\ violation_count = [e \in Engines |-> 0]
    /\ violation_bboxes = [e \in Engines |-> <<>>]
    /\ store = <<>>
    /\ results = <<>>
    /\ acked = {}
    /\ nacked = {}
    /\ raised = <<"none">>
    /\ deliveries = <<1>>
    /\ OverlapIdle
    /\ AggIdle
    /\ StartIdle
    /\ ReaderIdle
    /\ TopoIdle

NextRule == \E e \in Engines : Evaluate(e)

SpecRule == InitRule /\ [][NextRule]_vars

(***************************************************************************)
(* SpecOverlap: boxes_overlap is called on two boxes of the grid with some *)
(* iou_threshold.  The boxes include degenerate and inverted ones.         *)
(***************************************************************************)
GridBoxes == {<<x1, y1, x2, y2>> : x1 \in 0..GridMax, y1 \in 0..GridMax,
                                   x2 \in 0..GridMax, y2 \in 0..GridMax}

\* iou_threshold in percent
Thresholds == {0, DefaultIouThreshold, 50, 100}

InitOverlap ==
    /\ EngineInit
    /\ AggIdle
    /\ StartIdle
    /\ ReaderIdle
    /\ TopoIdle
    /\ boxA \in GridBoxes
    /\ boxB \in GridBoxes
    /\ iou = DefaultIouThreshold
    /\ overlap = <<>>

CallOverlap ==
    /\ overlap = <<>>
    /\ \E t \in Thresholds :
          /\ iou' = t
          /\ overlap' = <<boxes_overlap(boxA, boxB, t)>>
    /\ UNCHANGED <<boxA, boxB, engineVars, aggVars, startVars, readerVars, topoVars>>

SpecOverlap == InitOverlap /\ [][CallOverlap]_vars

(***************************************************************************)
(* Properties of rule evaluation (SpecRule) and of the overlap predicate   *)
(* (SpecOverlap).  The references below are written from the statement of  *)
(* the rule, not from the loops of the source.                             *)
(***************************************************************************)
\* the two rectangles have an intersection of strictly positive area
PositiveIntersection(a, b) ==
    /\ Max(a[1], b[1]) < Min(a[3], b[3])
    /\ Max(a[2], b[2]) < Min(a[4], b[4])

InScope(b) == \E r \in 1..Len(ROIS) : PositiveIntersection(b, ROIS[r])

Covered(b, dets) ==
    \E k \in 1..Len(dets) :
        dets[k].class = "scooper" /\ PositiveIntersection(b, dets[k].bbox)

TouchesPizza(b, dets, k) ==
    dets[k].class = "pizza" /\ PositiveIntersection(b, dets[k].bbox)

\* the first pizza, in detection order, that box b overlaps
FirstPizza(b, dets) ==
    dets[CHOOSE k \in 1..Len(dets) :
            /\ TouchesPizza(b, dets, k)
            /\ \A j \in 1..(k - 1) : ~TouchesPizza(b, dets, j)].bbox

Offending(d, dets) ==
    /\ d.class = "hand"
    /\ InScope(d.bbox)
    /\ ~Covered(d.bbox, dets)
    /\ \E k \in 1..Len(dets) : TouchesPizza(d.bbox, dets, k)

\* the first-match reference: one pairing per offending hand, in hand order
FirstMatchPairings(dets) ==
    LET off == SelectSeq(dets, LAMBDA d : Offending(d, dets))
    IN  [k \in 1..Len(off) |->
            [hand |-> off[k].bbox, pizza |-> FirstPizza(off[k].bbox, dets)]]

\* C7: after rule evaluation the pairing list is the first-match reference
\* of the detection list and violation_count is its length; the scenario
\* hand (50,34,56,37), pizza (49,33,57,38), no scooper gives exactly that one
\* pairing and violation_count 1.
C7_FirstMatchPairing ==
    \A e \in Engines :
        pc[e] = "evaluated" =>
            /\ violation_bboxes[e] = FirstMatchPairings(detections[e])
            /\ violation_count[e] = Len(violation_bboxes[e])
            /\ detections[e] = SceneViolation =>
                   /\ violation_bboxes[e] = << [hand |-> HandBox, pizza |-> PizzaBox] >>
                   /\ violation_count[e] = 1

\* two hands and two pizzas: the first hand overlaps both pizzas and is
\* paired once, and the later hand is paired too
C7_Witness ==
    \E e \in Engines :
        /\ pc[e] = "evaluated"
        /\ Len(detections[e]) = 4
        /\ detections[e][1].class = "hand" /\ detections[e][4].class = "hand"
        /\ detections[e][2].class = "pizza" /\ detections[e][3].class = "pizza"
        /\ PositiveIntersection(detections[e][1].bbox, detections[e][2].bbox)
        /\ PositiveIntersection(detections[e][1].bbox, detections[e][3].bbox)
        /\ violation_count[e] = 2
        /\ violation_bboxes[e][1].pizza = detections[e][2].bbox
        /\ violation_bboxes[e][2].hand = detections[e][4].bbox

\* C8: after rule evaluation no pairing's hand overlaps a scooper detection
\* of the frame; the scenario hand (50,34,56,37), pizza (49,33,57,38),
\* scooper (50,34,54,36) gives violation_count 0.
C8_ScooperTakesPrecedence ==
    \A e \in Engines :
        pc[e] = "evaluated" =>
            /\ \A k \in 1..Len(violation_bboxes[e]) :
                   ~Covered(violation_bboxes[e][k].hand, detections[e])
            /\ (\A k \in 1..Len(detections[e]) :
                   detections[e][k].class = "hand" =>
                       Covered(detections[e][k].bbox, detections[e]))
                 => violation_count[e] = 0
            /\ detections[e] = SceneScooper => violation_count[e] = 0

\* a hand inside the ROI overlapping a pizza and a scooper, and no violation
C8_Witness ==
    \E e \in Engines :
        /\ pc[e] = "evaluated"
        /\ \E k \in 1..Len(detections[e]) :
              /\ detections[e][k].class = "hand"
              /\ InScope(detections[e][k].bbox)
              /\ Covered(detections[e][k].bbox, detections[e])
              /\ \E j \in 1..Len(detections[e]) :
                    TouchesPizza(detections[e][k].bbox, detections[e], j)
        /\ violation_count[e] = 0

\* C9: is_in_roi holds of a box exactly when the box has an intersection of
\* positive area with a configured ROI, and after rule evaluation every
\* pairing's hand is in scope: the hand (0,0,5,5) is never paired.
C9_OnlyHandsInRoi ==
    \A e \in Engines :
        /\ \A k \in 1..Len(detections[e]) :
               is_in_roi(detections[e][k].bbox, ROIS) <=> InScope(detections[e][k].bbox)
        /\ pc[e] = "evaluated" =>
               \A k \in 1..Len(violation_bboxes[e]) :
                   /\ InScope(violation_bboxes[e][k].hand)
                   /\ violation_bboxes[e][k].hand # OutsideBox

\* the hand (0,0,5,5) overlaps a pizza, no scooper is present, and rule
\* evaluation records nothing
C9_Witness ==
    \E e \in Engines :
        /\ pc[e] = "evaluated"
        /\ \E k, j \in 1..Len(detections[e]) :
              /\ detections[e][k] = Det("hand", OutsideBox)
              /\ TouchesPizza(OutsideBox, detections[e], j)
        /\ \A k \in 1..Len(detections[e]) : detections[e][k].class # "scooper"
        /\ violation_count[e] = 0

\* C10: whatever iou_threshold is passed, boxes_overlap returns TRUE exactly
\* when the two boxes have an intersection of strictly positive area.
C10_OverlapIsPositiveArea ==
    overlap # <<>> => overlap[1] = PositiveIntersection(boxA, boxB)

\* two proper boxes sharing only an edge, a non-default threshold, and FALSE
C10_Witness ==
    /\ overlap = <<FALSE>>
    /\ iou # DefaultIouThreshold
    /\ boxA[1] < boxA[3] /\ boxA[2] < boxA[4]
    /\ boxB[1] < boxB[3] /\ boxB[2] < boxB[4]
    /\ boxA[3] = boxB[1]
    /\ Max(boxA[2], boxB[2]) < Min(boxA[4], boxB[4])

\* C11: the value boxes_overlap returns for (boxA, boxB) is the value it
\* returns for (boxB, boxA), for every pair of boxes of the grid, degenerate
\* and inverted boxes included.
C11_OverlapIsSymmetric ==
    overlap # <<>> => overlap[1] = boxes_overlap(boxB, boxA, iou)

\* two proper boxes of different area that overlap, neither inside the other
C11_Witness ==
    /\ overlap = <<TRUE>>
    /\ boxA[1] < boxB[1] /\ boxB[1] < boxA[3] /\ boxA[3] < boxB[3]
    /\ (boxA[3] - boxA[1]) * (boxA[4] - boxA[2])
         # (boxB[3] - boxB[1]) * (boxB[4] - boxB[2])

\* an inverted box (x2 < x1) against a proper box that covers its corners
C11_WitnessInverted ==
    /\ overlap = <<FALSE>>
    /\ boxA[3] < boxA[1]
    /\ boxB[1] <= boxA[3] /\ boxA[1] <= boxB[3]
    /\ boxB[1] < boxB[3] /\ boxB[2] < boxB[4]

\* ---------------------------------------------------------------------------
\* The aggregator: StreamingManager.process_detection, streaming/app.py.
\* It consumes the messages of  results  in publication order, one at a time.

MaxResults == 2

ViolationCounts == 0..2

ResultFrameIds == {1, 2}

\* what a result message that json.loads accepts lacks for the handler:
\* "result" is a message of the shape the engine publishes
ResultKind(m) == IF "kind" \in DOMAIN m THEN m.kind ELSE "result"

\* the bodies a publisher can put on detection_results
ResultBodies ==
    [video_name : Videos, frame_id : ResultFrameIds, detections : {<<>>},
     violation_count : ViolationCounts]
    \cup {[kind |-> "not_json"]}
    \cup [kind : {"no_video_name"}, frame_id : {1}, violation_count : {1}]
    \cup [kind : {"no_violation_count", "count_not_number"},
          video_name : Videos, frame_id : {1}]

PublishResult ==
    /\ Len(results) < MaxResults
    /\ \E b \in ResultBodies : results' = Append(results, b)
    /\ UNCHANGED <<queue, sent, pc, msg, detections, violation_count,
                   violation_bboxes, store, acked, nacked, raised, deliveries,
                   overlapVars, aggVars,
                   startVars, readerVars, topoVars>>

aggEngineVars == <<engineVars, overlapVars, startVars, readerVars, topoVars>>

\* basic_qos(prefetch_count=1): the next message comes only when the
\* previous one is settled
AggDeliver_NoPrefetch ==
    /\ rdelivered < Len(results)
    /\ rdelivered' = rdelivered + 1
    /\ aggCur' = rdelivered + 1
    /\ aggPc' = "received"
    /\ aggBefore' = [latest_detections |-> latest_detections,
                     video_violations |-> video_violations]
    /\ UNCHANGED <<latest_detections, video_violations, aggAcked, aggNacked,
                   observed, restarts, aggEngineVars>>

AggDeliver ==
    /\ aggPc = "idle"
    /\ rdelivered < Len(results)
    /\ rdelivered' = rdelivered + 1
    /\ aggCur' = rdelivered + 1
    /\ aggPc' = "received"
    /\ aggBefore' = [latest_detections |-> latest_detections,
                     video_violations |-> video_violations]
    /\ UNCHANGED <<latest_detections, video_violations, aggAcked, aggNacked,
                   observed, restarts, aggEngineVars>>

\* except Exception: basic_nack(requeue=False), the handler returns
\* a plausible bug: the exception leaves the callback and ends start_consuming
AggExcept_Crash ==
    /\ aggNacked' = aggNacked \cup {aggCur}
    /\ aggPc' = "crashed"
    /\ aggCur' = 0
    /\ UNCHANGED <<aggAcked>>

AggExcept ==
    /\ aggNacked' = aggNacked \cup {aggCur}
    /\ aggPc' = "idle"
    /\ aggCur' = 0
    /\ UNCHANGED <<aggAcked>>

\* json.loads, message['video_name'], latest_detections[video_name] = message
AggSetLatest ==
    /\ aggPc = "received"
    /\ LET m == results[aggCur] IN
         IF ResultKind(m) \in {"not_json", "no_video_name"}
           THEN AggExcept /\ UNCHANGED latest_detections
           ELSE /\ latest_detections' = (m.video_name :> m) @@ latest_detections
                /\ aggPc' = "latest_set"
                /\ UNCHANGED <<aggCur, aggAcked, aggNacked>>
    /\ UNCHANGED <<rdelivered, video_violations, observed, aggGhost, aggEngineVars>>

\* message['violation_count'], then the counter of a new video starts at 0
AggInitCounter ==
    /\ aggPc = "latest_set"
    /\ LET m == results[aggCur] IN
         IF ResultKind(m) = "no_violation_count"
           THEN AggExcept /\ UNCHANGED video_violations
           ELSE /\ video_violations' =
                     IF m.video_name \in DOMAIN video_violations
                       THEN video_violations
                       ELSE (m.video_name :> 0) @@ video_violations
                /\ aggPc' = "counter_ready"
                /\ UNCHANGED <<aggCur, aggAcked, aggNacked>>
    /\ UNCHANGED <<rdelivered, latest_detections, observed, aggGhost, aggEngineVars>>

\* video_violations[video_name] += violation_count
AggAdd_Twice(m) ==
    [video_violations EXCEPT ![m.video_name] = @ + 2 * m.violation_count]

AggAdd_Value(m) ==
    [video_violations EXCEPT ![m.video_name] = @ + m.violation_count]

AggAdd ==
    /\ aggPc = "counter_ready"
    /\ LET m == results[aggCur] IN
         IF ResultKind(m) = "count_not_number"
           THEN AggExcept /\ UNCHANGED video_violations
           ELSE /\ video_violations' = AggAdd_Value(m)
                /\ aggPc' = "counted"
                /\ UNCHANGED <<aggCur, aggAcked, aggNacked>>
    /\ UNCHANGED <<rdelivered, latest_detections, observed, aggGhost, aggEngineVars>>

\* ch.basic_ack, the last statement inside the try
AggAck ==
    /\ aggPc = "counted"
    /\ aggAcked' = aggAcked \cup {aggCur}
    /\ aggPc' = "idle"
    /\ aggCur' = 0
    /\ UNCHANGED <<rdelivered, latest_detections, video_violations, aggNacked,
                   observed, aggGhost, aggEngineVars>>

\* GET /api/detections/<video_name>, served by a Flask thread while the consumer
\* thread runs; the counter map is read as a second reader of the same
\* state would read it
get_latest_detection ==
    /\ \E v \in Videos :
         observed' =
           [video |-> v, upto |-> rdelivered,
            latest |-> IF v \in DOMAIN latest_detections
                         THEN <<latest_detections[v]>> ELSE <<>>,
            counter |-> IF v \in DOMAIN video_violations
                          THEN <<video_violations[v]>> ELSE <<>>]
    /\ UNCHANGED <<rdelivered, aggPc, aggCur, latest_detections,
                   video_violations, aggAcked, aggNacked, aggGhost, aggEngineVars>>

InitAgg == EngineInit /\ OverlapIdle /\ AggIdle /\ StartIdle /\ ReaderIdle
            /\ TopoIdle

NextAgg ==
    \/ PublishResult
    \/ AggDeliver
    \/ AggSetLatest
    \/ AggInitCounter
    \/ AggAdd
    \/ AggAck
    \/ get_latest_detection

SpecAgg == InitAgg /\ [][NextAgg]_vars

\* the violation_count fields of the messages of video v among the first n
\* messages of  results  whose index is in  S, added up
RECURSIVE SumCounts(_, _, _)
SumCounts(v, S, n) ==
    IF n = 0 THEN 0
    ELSE SumCounts(v, S, n - 1)
         + (IF /\ n \in S
               /\ ResultKind(results[n]) = "result"
               /\ results[n].video_name = v
              THEN results[n].violation_count ELSE 0)

CounterOf(v) ==
    IF v \in DOMAIN video_violations THEN video_violations[v] ELSE 0

\* the messages whose addition has been executed
Counted == aggAcked \cup (IF aggPc = "counted" THEN {aggCur} ELSE {})

\* C12: at every point of the aggregator's run the running counter of each
\* video is the sum of the violation_count fields of the DetectionResult
\* messages of that video whose addition has run, each taken once; a video
\* whose counter was just created holds 0; when the handler is idle these are
\* exactly the consumed (acknowledged) messages.
C12_CounterIsSumOfConsumed ==
    /\ \A v \in Videos : CounterOf(v) = SumCounts(v, Counted, Len(results))
    /\ aggPc = "idle" =>
         aggAcked = {i \in 1..rdelivered : ResultKind(results[i]) = "result"}

\* two messages of one video with different non-zero counts were consumed
C12_Witness ==
    /\ aggPc = "idle"
    /\ aggAcked = {1, 2}
    /\ results[1].video_name = results[2].video_name
    /\ results[1].violation_count = 1
    /\ results[2].violation_count = 2
    /\ video_violations[results[1].video_name] = 3

\* C13: a result message is acknowledged only after its in-memory update ran,
\* and a malformed result message (invalid JSON, missing video_name or
\* violation_count, non-numeric violation_count), once settled, was
\* acknowledged and not nacked.
C13_MalformedIsAckedAndDropped ==
    /\ \A i \in aggAcked : ResultKind(results[i]) = "result"
                           => results[i].video_name \in DOMAIN video_violations
    /\ \A i \in 1..rdelivered :
         (ResultKind(results[i]) # "result" /\ i # aggCur)
           => (i \in aggAcked /\ i \notin aggNacked)

\* the maps as they stand when the first k messages of  results  have been
\* handled whole, each from delivery to ack or nack
WritesLatest(m) ==
    ResultKind(m) \in {"result", "no_violation_count", "count_not_number"}

WritesCounter(m) == ResultKind(m) \in {"result", "count_not_number"}

LatestAfter(v, k) ==
    LET S == {i \in 1..k : WritesLatest(results[i]) /\ results[i].video_name = v}
    IN  IF S = {} THEN <<>>
        ELSE <<results[CHOOSE i \in S : \A j \in S : j <= i]>>

CounterAfter(v, k) ==
    IF \E i \in 1..k : WritesCounter(results[i]) /\ results[i].video_name = v
      THEN <<SumCounts(v, 1..k, k)>>
      ELSE <<>>

max_retries == 5

startOthers == <<model_loaded, engineVars, overlapVars, aggVars, readerVars, topoVars>>

Attempt(s, field) ==
    [startup[s] EXCEPT ![field] = TRUE,
                       !.attempts = @ + 1]

Failure(s) ==
    [startup[s] EXCEPT !.retry_count = @ + 1, !.attempts = @ + 1]

NextConnect(st, to) == [st EXCEPT !.pc = to, !.retry_count = 0, !.attempts = 0]

\* detection/app.py connect_db: the while loop ends after max_retries failures
\* and the method returns None
DetConnect_FallThrough(st, to) ==
    IF st.retry_count = max_retries THEN NextConnect(st, to) ELSE st

DetConnectDb ==
    /\ startup["detection"].pc = "connect_db"
    /\ \E ok \in BOOLEAN :
         startup' = [startup EXCEPT !["detection"] =
            IF ok THEN NextConnect(Attempt("detection", "db_conn"),
                                   "connect_rabbitmq")
                  ELSE DetConnect_FallThrough(Failure("detection"),
                                              "connect_rabbitmq")]
    /\ UNCHANGED startOthers

\* detection/app.py connect_rabbitmq, the same loop
DetConnectRabbitmq ==
    /\ startup["detection"].pc = "connect_rabbitmq"
    /\ \E ok \in BOOLEAN :
         startup' = [startup EXCEPT !["detection"] =
            IF ok THEN NextConnect(Attempt("detection", "channel"),
                                   "start_consuming")
                  ELSE DetConnect_FallThrough(Failure("detection"),
                                              "start_consuming")]
    /\ UNCHANGED startOthers

\* start_consuming: self.channel.basic_qos on None raises AttributeError,
\* which nothing catches
DetStartConsuming ==
    /\ startup["detection"].pc = "start_consuming"
    /\ startup' = [startup EXCEPT !["detection"].pc =
                     IF startup["detection"].channel THEN "consuming"
                                                     ELSE "aborted"]
    /\ UNCHANGED startOthers

\* streaming/app.py connect_db and connect_rabbitmq: the last failure raises;
\* the module-level try/except logs it and the module goes on to app.run
StrConnect(st) ==
    IF st.retry_count = max_retries THEN [st EXCEPT !.pc = "serving"] ELSE st

StrConnectDb ==
    /\ startup["streaming"].pc = "connect_db"
    /\ \E ok \in BOOLEAN :
         startup' = [startup EXCEPT !["streaming"] =
            IF ok THEN NextConnect(Attempt("streaming", "db_conn"),
                                   "connect_rabbitmq")
                  ELSE StrConnect(Failure("streaming"))]
    /\ UNCHANGED startOthers

StrConnectRabbitmq ==
    /\ startup["streaming"].pc = "connect_rabbitmq"
    /\ \E ok \in BOOLEAN :
         startup' = [startup EXCEPT !["streaming"] =
            IF ok THEN NextConnect(Attempt("streaming", "channel"),
                                   "start_consumer_thread")
                  ELSE StrConnect(Failure("streaming"))]
    /\ UNCHANGED startOthers

\* start_consumer_thread, the manager is assigned, app.run
StrStartConsumerThread ==
    /\ startup["streaming"].pc = "start_consumer_thread"
    /\ startup' = [startup EXCEPT !["streaming"].pc = "serving",
                                  !["streaming"].manager = TRUE]
    /\ UNCHANGED startOthers

\* frame_reader/app.py connect_rabbitmq: one attempt, the exception is
\* raised again and ends the process
ReaderConnectRabbitmq ==
    /\ startup["frame_reader"].pc = "connect_rabbitmq"
    /\ \E ok \in BOOLEAN :
         startup' = [startup EXCEPT !["frame_reader"] =
            IF ok THEN [Attempt("frame_reader", "channel")
                          EXCEPT !.pc = "process_all_videos"]
                  ELSE [Failure("frame_reader") EXCEPT !.pc = "aborted"]]
    /\ UNCHANGED startOthers

InitStartup == EngineInit /\ OverlapIdle /\ AggIdle /\ StartIdle /\ ReaderIdle
            /\ TopoIdle

NextStartup ==
    \/ DetConnectDb
    \/ DetConnectRabbitmq
    \/ DetStartConsuming
    \/ StrConnectDb
    \/ StrConnectRabbitmq
    \/ StrStartConsumerThread
    \/ ReaderConnectRabbitmq

SpecStartup == InitStartup /\ [][NextStartup]_vars

\* the service is past its start-up and does its work
Working(s) == startup[s].pc \in {"consuming", "serving", "process_all_videos"}

NeedsStore(s) == s \in {"detection", "streaming"}

\* C15: no connection is tried more than max_retries times; a service whose
\* attempts all failed is aborted; a service that consumes, publishes or
\* serves holds every connection it needs (channel, and db_conn for the rule
\* engine and the streaming service).
C15_BoundedRetryThenAbort ==
    \A s \in Services :
        /\ startup[s].attempts <= max_retries
        /\ Working(s) => /\ startup[s].channel
                         /\ NeedsStore(s) => startup[s].db_conn

\* ---------------------------------------------------------------------------
\* The frame reader: process_all_videos and read_video, frame_reader/app.py.

MaxSource == 4

MaxPolls == 2

max_fps == 5

\* CAP_PROP_FPS of the sources: 0 when the container does not state it
NativeRates == {0, 4, 7, 10, 15}

VideoOrder == <<"v1", "v2">>

\* sorted(video_files)
Sorted(S) == SelectSeq(VideoOrder, LAMBDA v : v \in S)

readerOthers == <<engineVars, overlapVars, aggVars, startVars, topoVars>>

\* a file is copied into the video directory
VideoArrives ==
    /\ \E v \in Videos \ dirVideos : dirVideos' = dirVideos \cup {v}
    /\ UNCHANGED <<readerPc, video_files, vidx, cap, frame_skip, frame_id,
                   published, failed, polls, readerLog, readerOthers>>

\* the glob of lines 107-111 and the test of line 115
Scan ==
    /\ readerPc = "scan"
    /\ video_files' = Sorted(dirVideos)
    /\ vidx' = 1
    /\ readerPc' = IF dirVideos = {} THEN "waiting" ELSE "next_video"
    /\ UNCHANGED <<dirVideos, cap, frame_skip, frame_id, published, failed,
                   polls, readerLog, readerOthers>>

\* while True: time.sleep(10)
Wait ==
    /\ readerPc = "waiting"
    /\ polls < MaxPolls
    /\ polls' = polls + 1
    /\ UNCHANGED <<readerPc, dirVideos, video_files, vidx, cap, frame_skip,
                   frame_id, published, failed, readerLog, readerOthers>>

\* frame_skip = max(1, int(fps / max_fps))
Stride_RoundUp(fps) == Max(1, (fps + max_fps - 1) \div max_fps)

Stride(fps) == Max(1, fps \div max_fps)

\* a plausible bug: the failure to open is raised and ends the process
OpenVideo_Fatal ==
    /\ readerPc = "next_video"
    /\ vidx <= Len(video_files)
    /\ \E opened \in BOOLEAN, n \in 0..MaxSource, fps \in NativeRates :
         IF opened
           THEN /\ cap' = [n |-> n, fps |-> fps]
                /\ frame_skip' = Stride(fps)
                /\ frame_id' = 0
                /\ failed' = {}
                /\ readerPc' = "reading"
                /\ UNCHANGED vidx
                /\ UNCHANGED skipped
           ELSE /\ readerPc' = "crashed"
                /\ skipped' = skipped \cup {video_files[vidx]}
                /\ UNCHANGED <<cap, frame_skip, frame_id, failed, vidx>>
    /\ UNCHANGED <<dirVideos, video_files, published, polls, completed,
                   readerOthers>>

\* read_video up to the loop: a source that does not open is logged and skipped
OpenVideo ==
    /\ readerPc = "next_video"
    /\ vidx <= Len(video_files)
    /\ \E opened \in BOOLEAN, n \in 0..MaxSource, fps \in NativeRates :
         IF opened
           THEN /\ cap' = [n |-> n, fps |-> fps]
                /\ frame_skip' = Stride(fps)
                /\ frame_id' = 0
                /\ failed' = {}
                /\ readerPc' = "reading"
                /\ UNCHANGED vidx
                /\ UNCHANGED skipped
           ELSE /\ vidx' = vidx + 1
                /\ skipped' = skipped \cup {video_files[vidx]}
                /\ UNCHANGED <<cap, frame_skip, frame_id, failed, readerPc>>
    /\ UNCHANGED <<dirVideos, video_files, published, polls, completed,
                   readerOthers>>

\* one turn of the loop of lines 88-100; publish_frame logs and swallows
\* whatever its body raises
ReadFrame ==
    /\ readerPc = "reading"
    /\ IF frame_id = cap.n
         THEN /\ readerPc' = "next_video"
              /\ vidx' = vidx + 1
              /\ completed' = completed \cup {video_files[vidx]}
              /\ UNCHANGED <<frame_id, published, failed>>
         ELSE /\ frame_id' = frame_id + 1
              /\ IF frame_id' % frame_skip = 0
                   THEN \E ok \in BOOLEAN :
                          IF ok
                            THEN /\ published' = Append(published,
                                       [video_name |-> video_files[vidx],
                                        frame_id |-> frame_id'])
                                 /\ UNCHANGED failed
                            ELSE /\ failed' = failed \cup {frame_id'}
                                 /\ UNCHANGED published
                   ELSE UNCHANGED <<published, failed>>
              /\ UNCHANGED <<readerPc, vidx, completed>>
    /\ UNCHANGED <<dirVideos, video_files, cap, frame_skip, polls, skipped,
                   readerOthers>>

\* the for loop is over: "All videos processed"
Finish ==
    /\ readerPc = "next_video"
    /\ vidx > Len(video_files)
    /\ readerPc' = "done"
    /\ UNCHANGED <<dirVideos, video_files, vidx, cap, frame_skip, frame_id,
                   published, failed, polls, readerLog, readerOthers>>

InitReader == EngineInit /\ OverlapIdle /\ AggIdle /\ StartIdle /\ ReaderIdle
            /\ TopoIdle

NextReader ==
    \/ VideoArrives
    \/ Scan
    \/ Wait
    \/ OpenVideo
    \/ ReadFrame
    \/ Finish

SpecReader == InitReader /\ [][NextReader]_vars

\* the frame_ids published for video v, in publish order
PublishedIds(v) ==
    LET P == SelectSeq(published, LAMBDA m : m.video_name = v)
    IN  [i \in 1..Len(P) |-> P[i].frame_id]

\* the source indexes 1..k that are multiples of stride and not in excl,
\* ascending
RECURSIVE Selected(_, _, _)
Selected(k, stride, excl) ==
    IF k = 0 THEN <<>>
    ELSE IF k % stride = 0 /\ k \notin excl
           THEN Append(Selected(k - 1, stride, excl), k)
           ELSE Selected(k - 1, stride, excl)

\* C16 as stated: when frame_id source frames of the open video have been
\* read, its published frame_ids are exactly the source indexes i in
\* 1..frame_id with i mod stride = 0, stride = max(1, floor(rate / max_fps)),
\* in increasing order.
C16_PublishesExactlyEveryStrideth ==
    readerPc = "reading" =>
        PublishedIds(video_files[vidx])
          = Selected(frame_id, Max(1, cap.fps \div max_fps), {})

\* C16: when frame_id source frames of the open video have been read, its
\* published frame_ids are, in increasing order, the source indexes i in
\* 1..frame_id with i mod stride = 0 whose publish_frame did not raise; each
\* frame carries its source index, counted from 1.
C16_PublishesEveryStridethNotFailed ==
    readerPc = "reading" =>
        /\ PublishedIds(video_files[vidx])
             = Selected(frame_id, Max(1, cap.fps \div max_fps), failed)
        /\ frame_id <= cap.n

\* a video of 4 frames at twice the sampling rate was read to its end and
\* frames 2 and 4 were published
C16_Witness ==
    /\ readerPc = "reading"
    /\ frame_id = cap.n
    /\ cap.fps = 2 * max_fps
    /\ PublishedIds(video_files[vidx]) = <<2, 4>>

\* C17: a waiting reader's poll that runs while a video file is in the
\* directory finds it: the reader leaves its wait; and a waiting reader never
\* reaches the end of process_all_videos.
C17_WaitingReaderFindsLateSource ==
    [][/\ (readerPc = "waiting" /\ dirVideos # {} /\ polls' = polls + 1)
            => readerPc' # "waiting"
       /\ readerPc = "waiting" => readerPc' # "done"]_vars

\* ---------------------------------------------------------------------------
\* The pipeline with one producer, one rule-engine instance and the
\* aggregator: the engine's results are what the aggregator consumes.

SingleEngine == "e1"

InitPipe == EngineInit /\ OverlapIdle /\ AggIdle /\ StartIdle /\ ReaderIdle
            /\ TopoIdle

NextPipe ==
    \/ PublishFrame
    \/ Deliver(SingleEngine)
    \/ Decode(SingleEngine)
    \/ Detect(SingleEngine)
    \/ Evaluate(SingleEngine)
    \/ Persist(SingleEngine)
    \/ Publish(SingleEngine)
    \/ Ack(SingleEngine)
    \/ AggDeliver
    \/ AggSetLatest
    \/ AggInitCounter
    \/ AggAdd
    \/ AggAck

SpecPipe == InitPipe /\ [][NextPipe]_vars

\* messages delivered to a consumer and not yet acked or nacked
UnackedFrames ==
    {t \in Tags : deliveries[t] > 0 /\ t \notin acked \cup nacked}

UnackedResults ==
    {i \in 1..rdelivered : i \notin aggAcked \cup aggNacked}

\* C18: every delivered message that is neither acked nor nacked is the one
\* message a consumer is handling now: the unacked frames are one per busy
\* rule-engine instance, the unacked results at most one, held by the
\* aggregator; a delivery happens only to an idle consumer.
C18_OneUnackedPerConsumer ==
    /\ LET busy == {e \in Engines : pc[e] # "idle"} IN
         /\ UnackedFrames = {msg[e].tag : e \in busy}
         /\ Cardinality(UnackedFrames) = Cardinality(busy)
    /\ Cardinality(UnackedResults) <= 1
    /\ UnackedResults = IF aggPc = "idle" THEN {} ELSE {aggCur}

\* the aggregator holds the first result while the second one, published by
\* the engine after it settled the first frame, waits in the queue
C18_Witness ==
    /\ aggPc # "idle" /\ aggCur = 1
    /\ rdelivered < Len(results)
    /\ acked = {1, 2}

\* the engine holds a frame while a further one waits in detection_queue
C18_WitnessEngine ==
    /\ pc[SingleEngine] # "idle" /\ queue # <<>>
    /\ UnackedFrames = {1}

\* the frame_ids of the results of video v among those whose index is in S
FrameIdsOf(v, S) ==
    {results[i].frame_id : i \in {k \in S : results[k].video_name = v}}

\* the results whose line 92 has run
LatestWritten ==
    {i \in 1..rdelivered : ~(i = aggCur /\ aggPc = "received")}

\* C19: with one producer and one rule-engine instance the results of one
\* video are published in strictly increasing frame_id order, the aggregator
\* takes them in publication order, and so the latest-result entry of a video
\* always carries the highest frame_id consumed for it.
C19_FrameOrderPreserved ==
    /\ \A i, j \in 1..Len(results) :
         (i < j /\ results[i].video_name = results[j].video_name)
           => results[i].frame_id < results[j].frame_id
    /\ aggAcked \cup aggNacked \cup UnackedResults = 1..rdelivered
    /\ \A v \in DOMAIN latest_detections :
         \A f \in FrameIdsOf(v, LatestWritten) :
            f <= latest_detections[v].frame_id

\* frames 1 and 2 of one video went through the engine and the aggregator
C19_Witness ==
    /\ aggAcked = {1, 2}
    /\ results[1].video_name = results[2].video_name
    /\ results[1].frame_id = 1
    /\ latest_detections[results[1].video_name].frame_id = 2

\* ---------------------------------------------------------------------------
\* The pipeline with a second publisher on detection_results that sends
\* arbitrary bodies, so that both consumers meet messages they fail on.

\* a body that fails at the first statement of the handler and one that
\* fails at its last update, after both maps were touched
Malformed ==
    {b \in ResultBodies :
        /\ ResultKind(b) \in {"not_json", "count_not_number"}
        /\ "video_name" \in DOMAIN b => b.video_name = VideoOrder[1]}

\* the foreign publisher sends one message, the first on the exchange
PublishMalformed ==
    /\ results = <<>>
    /\ \E b \in Malformed : results' = Append(results, b)
    /\ UNCHANGED <<queue, sent, pc, msg, detections, violation_count,
                   violation_bboxes, store, acked, nacked, raised, deliveries,
                   overlapVars, aggVars, startVars, readerVars, topoVars>>

NextIsolation ==
    \/ NextPipe
    \/ PublishMalformed

SpecIsolation == InitPipe /\ [][NextIsolation]_vars

\* a step of the aggregator's consumer loop
AggStep ==
    \/ AggDeliver
    \/ AggSetLatest
    \/ AggInitCounter
    \/ AggAdd
    \/ AggAck

\* the well-formed results delivered so far whose addition has run
WellFormedCounted ==
    {i \in 1..rdelivered : /\ ResultKind(results[i]) = "result"
                           /\ i = aggCur => aggPc = "counted"}

\* C20: a message is nacked exactly when its own handling raised and acked
\* otherwise, whatever happened to the messages before it; the counters are
\* the sums over the well-formed results alone; and neither consumer loop
\* ever stops: once the engine has settled its message the next waiting
\* frame can be delivered to it, and while the aggregator holds a message or
\* one waits for it, it has a next step.
C20_ErrorsAreIsolated ==
    /\ acked \cap nacked = {}
    /\ \A t \in acked \cup nacked : t \in nacked <=> raised[t] # "none"
    /\ aggAcked \cap aggNacked = {}
    /\ \A i \in aggAcked \cup aggNacked :
         i \in aggAcked <=> ResultKind(results[i]) = "result"
    /\ \A v \in Videos :
         CounterOf(v) = SumCounts(v, WellFormedCounted, Len(results))
    /\ (queue # <<>> /\ UnackedFrames = {}) => ENABLED Deliver(SingleEngine)
    /\ (rdelivered < Len(results) \/ aggPc # "idle") => ENABLED AggStep

\* in each consumer the first message failed and was nacked, the second one
\* was handled and acked
C20_Witness ==
    /\ nacked = {1} /\ acked = {2}
    /\ aggNacked = {1} /\ aggAcked = {2}
    /\ sent[2].body = "jpeg"

\* ---------------------------------------------------------------------------
\* The streaming process is started again: StreamingManager.__init__ builds a
\* new manager; the broker puts the message the old process held unacked back
\* at the head of streaming_results_queue.

MaxRestarts == 1

\* a plausible bug: the maps outlive the process
AggRestart_KeepsState ==
    /\ restarts < MaxRestarts
    /\ restarts' = restarts + 1
    /\ rdelivered' = IF aggCur # 0 THEN rdelivered - 1 ELSE rdelivered
    /\ aggPc' = "idle"
    /\ aggCur' = 0
    /\ aggBefore' = NoBefore
    /\ UNCHANGED <<latest_detections, video_violations, aggAcked, aggNacked,
                   observed, aggEngineVars>>

AggRestart ==
    /\ restarts < MaxRestarts
    /\ restarts' = restarts + 1
    /\ latest_detections' = <<>>
    /\ video_violations' = <<>>
    /\ rdelivered' = IF aggCur # 0 THEN rdelivered - 1 ELSE rdelivered
    /\ aggPc' = "idle"
    /\ aggCur' = 0
    /\ aggBefore' = NoBefore
    /\ UNCHANGED <<aggAcked, aggNacked, observed, aggEngineVars>>

\* get_violation_count_from_db: SELECT COUNT(*) FROM violations WHERE video_name
get_violation_count_from_db(st, v) ==
    Cardinality({k \in 1..Len(st) : st[k].video_name = v})

\* get_latest_detection, lines 218-221: the answer is the entry or 404
LatestDetectionAnswer(v) ==
    IF v \in DOMAIN latest_detections THEN <<latest_detections[v]>> ELSE <<>>

NextRestart ==
    \/ NextPipe
    \/ AggRestart

SpecRestart == InitPipe /\ [][NextRestart]_vars

\* C21: a restart of the streaming process leaves both maps of AggregateState
\* empty and the stored violation count of every video as it was; a
\* latest-result query right after the restart answers 'not found' for
\* every video.
C21_RestartEmptiesAggregateOnly ==
    [][restarts' # restarts =>
          /\ latest_detections' = <<>>
          /\ video_violations' = <<>>
          /\ \A v \in Videos :
                /\ LatestDetectionAnswer(v)' = <<>>
                /\ get_violation_count_from_db(store', v)
                     = get_violation_count_from_db(store, v)]_vars

\* a result was consumed and a row stored before the restart; after it the
\* maps are empty and the row is there
C21_Witness ==
    /\ restarts = 1
    /\ aggAcked # {}
    /\ latest_detections = <<>> /\ video_violations = <<>>
    /\ get_violation_count_from_db(store, results[1].video_name) = 1

\* ---------------------------------------------------------------------------
\* The per-message state machine of process_frame, checked under Spec.

\* the steps of one handling, in the order of the code; idle is the consumer
\* loop between two callbacks
StageOrder ==
    {<<"idle", "received">>, <<"received", "decoded">>,
     <<"decoded", "detected">>, <<"detected", "evaluated">>,
     <<"evaluated", "persisted">>, <<"persisted", "published">>}
    \cup {<<p, "idle">> : p \in {"received", "decoded", "evaluated",
                                 "persisted", "published"}}

Held(t) == \E e \in Engines : msg[e].tag = t

\* C22: a frame message is delivered once; while an instance holds it, it
\* has neither ack nor nack; once the callback has returned it has exactly
\* one of the two, never both and never none; and a handling passes its
\* stages in the order decode, detect, rule evaluation, persist, publish, ack,
\* leaving that order only to return to the consumer loop.
C22_OneDecisionInStageOrder ==
    /\ [](\A t \in Tags :
            /\ deliveries[t] <= 1
            /\ ~(t \in acked /\ t \in nacked)
            /\ Held(t) => (t \notin acked /\ t \notin nacked)
            /\ (deliveries[t] = 1 /\ ~Held(t)) => (t \in acked \/ t \in nacked))
    /\ [][\A e \in Engines :
            /\ pc'[e] # pc[e] => <<pc[e], pc'[e]>> \in StageOrder
            /\ (pc[e] = "published" /\ pc'[e] = "idle")
                  => msg[e].tag \in acked']_vars

\* one frame dropped with an ack for its missing 'frame' field, another
\* nacked because its insert raised
C22_Witness ==
    \E t, u \in Tags :
        /\ t \in acked /\ sent[t].body = "no_frame"
        /\ u \in nacked /\ raised[u] = "insert"

\* C23: with two instances consuming detection_queue every frame message is
\* delivered to at most one of them and at most once, so for every
\* (video, frame_id) at most one DetectionResult is published and at most one
\* row inserted, and two instances never hold the same message.
C23_OneInstancePerFrame ==
    /\ \A t \in Tags :
         /\ deliveries[t] <= 1
         /\ NResults(sent[t]) <= 1
         /\ NRows(sent[t]) <= 1
    /\ \A e1, e2 \in Engines :
         (e1 # e2 /\ msg[e1].tag # 0) => msg[e1].tag # msg[e2].tag

\* both instances handled a violating frame at the same time: two rows and
\* two results, one per frame
C23_Witness ==
    /\ Len(store) = 2 /\ Len(results) = 2
    /\ \A e \in Engines : pc[e] = "published"
    /\ sent[1].video_name = sent[2].video_name

\* the videos of the sorted list the for loop is done with
Tried == {video_files[k] : k \in 1..Min(vidx - 1, Len(video_files))}

\* C24: a video that does not open has no frame published and does not stop
\* the reader: the for loop goes on to the next file of the sorted list, every
\* file it is done with was either skipped or read to its end, and when the
\* loop ends that holds for every file of the list.
C24_UnopenableVideoIsSkipped ==
    /\ \A v \in skipped : PublishedIds(v) = <<>>
    /\ skipped \cap completed = {}
    /\ readerPc \in {"next_video", "reading", "done"}
         => skipped \cup completed = Tried
    /\ readerPc = "done" => Tried = {video_files[k] : k \in 1..Len(video_files)}
    /\ (skipped # {} /\ readerPc # "done")
         => ENABLED (OpenVideo \/ ReadFrame \/ Finish)

\* the first video of the list did not open, the second was read to its end
\* and frames of it were published
C24_Witness ==
    /\ readerPc = "done"
    /\ Len(video_files) = 2
    /\ skipped = {video_files[1]}
    /\ completed = {video_files[2]}
    /\ PublishedIds(video_files[2]) # <<>>

\* C25: when the handler ends in nack, both maps are as they stood when the
\* message was delivered.
C25_RejectedMessageLeavesStateUnchanged ==
    [][aggNacked' # aggNacked =>
          /\ latest_detections' = aggBefore.latest_detections
          /\ video_violations' = aggBefore.video_violations]_vars

\* ---------------------------------------------------------------------------
\* The frame channel's topology on the broker: who declares detection_exchange,
\* detection_queue and the binding, in either start order.

MaxTopoFrames == 3

topoOthers == <<engineVars, overlapVars, aggVars, startVars, readerVars>>

\* frame_reader connect_rabbitmq: exchange_declare('detection_exchange'); the
\* reader declares no queue and no binding
ReaderDeclare ==
    /\ topoPc.reader = "connect"
    /\ broker' = [broker EXCEPT !.exchange = TRUE]
    /\ topoPc' = [topoPc EXCEPT !.reader = "publishing"]
    /\ UNCHANGED topoOthers

\* publish_frame: basic_publish to detection_exchange, routing key 'frame',
\* without the mandatory flag: a topic exchange with no matching binding
\* discards the message and the publisher is not told
ReaderPublish ==
    /\ topoPc.reader = "publishing"
    /\ topoPc.published < MaxTopoFrames
    /\ topoPc' = [topoPc EXCEPT !.published = @ + 1]
    /\ broker' = IF broker.bound
                   THEN [broker EXCEPT !.routed = @ + 1]
                   ELSE [broker EXCEPT !.dropped = @ + 1]
    /\ UNCHANGED topoOthers

\* one turn of the engine's connect_rabbitmq loop: it declares
\* detection_results and detection_queue, never detection_exchange;
\* queue_bind to an exchange that does not exist is refused by the broker
\* (404), the exception is counted and after max_retries the method returns
EngineBind ==
    /\ topoPc.engine = "connect"
    /\ IF broker.exchange
         THEN /\ broker' = [broker EXCEPT !.queue = TRUE, !.bound = TRUE]
              /\ topoPc' = [topoPc EXCEPT !.engine = "start_consuming"]
         ELSE /\ broker' = [broker EXCEPT !.queue = TRUE]
              /\ topoPc' = [topoPc EXCEPT
                              !.retry_count = @ + 1,
                              !.engine = IF topoPc.retry_count + 1 = max_retries
                                           THEN "unbound" ELSE "connect"]
    /\ UNCHANGED topoOthers

\* start_consuming: with the binding made the engine consumes; after the
\* refused bind the broker has closed the channel and basic_qos raises
EngineStart ==
    /\ topoPc.engine \in {"start_consuming", "unbound"}
    /\ topoPc' = [topoPc EXCEPT !.engine =
                    IF topoPc.engine = "unbound" THEN "aborted" ELSE "consuming"]
    /\ UNCHANGED <<broker, topoOthers>>

InitTopology == EngineInit /\ OverlapIdle /\ AggIdle /\ StartIdle /\ ReaderIdle
                /\ TopoIdle

NextTopology ==
    \/ ReaderDeclare
    \/ ReaderPublish
    \/ EngineBind
    \/ EngineStart

SpecTopology == InitTopology /\ [][NextTopology]_vars

\* C26: in either start order no published frame is lost (each one is routed
\* to detection_queue) and no queue_bind of the engine is refused.
C26_NoFrameLostInAnyStartOrder ==
    /\ broker.dropped = 0
    /\ broker.routed = topoPc.published
    /\ topoPc.retry_count = 0
    /\ topoPc.engine # "aborted"

\* ---------------------------------------------------------------------------
\* Two rule-engine instances publishing to the aggregator.

NextConcurrent ==
    \/ Next
    \/ AggStep

SpecConcurrent == Init /\ [][NextConcurrent]_vars

\* C27: the latest-result entry of a video carries the highest frame_id among
\* the results of that video consumed so far, with two rule-engine instances
\* publishing.
C27_LatestHoldsHighestFrame ==
    \A v \in DOMAIN latest_detections :
        \A i \in LatestWritten :
            results[i].video_name = v
              => results[i].frame_id <= latest_detections[v].frame_id

\* every frame sent has been handled and no insert and no publish raised
AllHandledCleanly ==
    /\ queue = <<>>
    /\ \A e \in Engines : pc[e] = "idle"
    /\ \A t \in Tags : raised[t] \notin {"insert", "publish"}

RowsOf(v) == {k \in 1..Len(store) : store[k].video_name = v}

ViolatingResultsOf(v) ==
    {k \in 1..Len(results) : /\ results[k].video_name = v
                             /\ results[k].violation_count >= 1}

\* C28: when every frame has been handled and no insert or publish raised,
\* each video has as many rows as results with violation_count >= 1: every
\* violating frame has one row, which holds all the frame's pairings, and a
\* frame with no pairing has none.
C28_OneRowPerViolatingFrame ==
    AllHandledCleanly =>
        /\ \A v \in Videos :
             Cardinality(RowsOf(v)) = Cardinality(ViolatingResultsOf(v))
        /\ \A k \in 1..Len(store) :
             \E j \in ViolatingResultsOf(store[k].video_name) :
                /\ results[j].frame_id = store[k].frame_id
                /\ Len(store[k].bounding_boxes) = results[j].violation_count
        /\ \A t \in Tags : NRows(sent[t]) <= 1

\* two frames of one video handled: one with two pairings and one row, one
\* with no pairing and no row
C28_Witness ==
    /\ AllHandledCleanly
    /\ Len(results) = 2 /\ Len(store) = 1
    /\ Len(store[1].bounding_boxes) = 2
    /\ results[1].video_name = results[2].video_name

(***************************************************************************)
(* The rule engine after either outcome of loading the model: __init__     *)
(* catches a failed YOLO(model_path), sets model to None and model_loaded  *)
(* to False (lines 93-104) and returns; __main__ then connects and calls   *)
(* start_consuming whatever model_loaded is (lines 293-296).               *)
(***************************************************************************)
InitModel ==
    /\ EngineInit /\ OverlapIdle /\ AggIdle /\ ReaderIdle /\ TopoIdle
    /\ StartupIdle
    /\ model_loaded \in BOOLEAN

SpecModel == InitModel /\ [][Next]_vars

\* C29: when the model failed to load, no frame message is taken from the
\* queue and discarded because the model is missing.
C29_NoFrameDiscardedWithoutModel ==
    ~model_loaded =>
        \A t \in Tags : ~(deliveries[t] > 0 /\ t \in nacked /\ raised[t] = "detect")

====
